---------------------------- MODULE Spec2Model ----------------------------
(***************************************************************************)
(* State-machine model of the WebSocket reverse proxy of                   *)
(* src/websocketproxy.go (type WebsocketProxy and its methods) as it is    *)
(* set up by the program of src/unnamed/part_000.                          *)
(*                                                                         *)
(* One proxy object is shared by all handler goroutines.  A "slot" is one  *)
(* handler goroutine of the HTTP server: it serves one request (session)   *)
(* after another.  Every access of a handler to the shared fields ReqCount *)
(* and DesolateBackend is a step of its own, because the code takes no     *)
(* lock: `w.ReqCount++` and `w.DesolateBackend[index]--` are a read        *)
(* followed by a write.  The outcomes of these races are the interleavings *)
(* of the single reads and writes; an abort of the process by the Go       *)
(* runtime on a detected concurrent map access is not modelled.            *)
(*                                                                         *)
(* The variables entry, callIncs, dialed, dials, retLog, skips, readLog,   *)
(* writeLog and backendOpen record what happened; no step of the program   *)
(* reads them.                                                             *)
(***************************************************************************)
EXTENDS Integers, Sequences, FiniteSets, TLC

(* ------------------------------ bounds --------------------------------- *)
\* handler goroutines that may run at the same time
NumSessions == 2
\* backends the configuration phase may register
MaxBackends == 2
\* cap on the selection counter (it grows without bound in the code)
MaxReqCount == 14
\* messages the two peers of one session send in total
MaxMsgs == 2
\* value of the selection counter from which no further request arrives
\* (specifications with concurrent handlers or with message traffic)
MaxLoad == 2

(* --------------------------- program constants ------------------------- *)
\* websocketproxy.go:180  w.DesolateBackend[index] = 5
Penalty == 5
\* websocketproxy.go:222  errc := make(chan error, 2)
ErrcCap == 2
\* the message type tags ReadMessage returns and WriteMessage is given
TextMessage == "text"
BinaryMessage == "binary"

Slots == 1..NumSessions
Sides == {"client", "backend"}
\* the two relay goroutines, named by direction
Tasks == {"b2c", "c2b"}
\* the (msgType, msg) pairs a peer may send: a text and a binary message
\* with different payloads
Msgs == {<<TextMessage, "p">>, <<BinaryMessage, "q">>}
NoMsg == <<"", "">>
NoBackendAvailable == "No backend available"
UpgradeError == "upgrade error"

VARIABLES
    Backends,         \* w.Backends: the registered resolvers, in order
    serving,          \* http.ListenAndServe has been called
    ReqCount,         \* w.ReqCount
    DesolateBackend,  \* w.DesolateBackend: map index -> skip budget
    pc,               \* per slot: position of the handler goroutine
    i,                \* per slot: loop variable of tryGetBackendConn
    selectcnt,        \* per slot: selectBackend's selectcnt
    index,            \* per slot: selectBackend's / connectBackend's index
    tmp,              \* per slot: value read by a read-modify-write
    err,              \* per slot: ServeHTTP's err
    rw,               \* per slot: what was written to the ResponseWriter
    conn,             \* per slot, per side: the session's connection object
    broken,           \* per slot, per side: the peer closed or failed
    backendOpen,      \* per slot: backend connections dialed and not closed
    tpc,              \* per slot, per task: position of the relay goroutine
    msg,              \* per slot, per task: (msgType, msg) held by the task
    readLog,          \* per slot, per task: messages ReadMessage returned
    writeLog,         \* per slot, per task: messages WriteMessage accepted
    errc,             \* per slot: the buffered error channel
    entry,            \* per slot: ReqCount and DesolateBackend at the entry
                      \*           of the running selectBackend call
    callIncs,         \* per slot: counter increments of the running call
    dialed,           \* per slot: indices dialed by the running session
    dials,            \* per slot: dial attempts of the running session
    retLog,           \* indices returned by the latest selectBackend calls
                      \* that started on an all-healthy pool
    skips             \* per index: skip rounds completed since the last
                      \* failed dial of that index, -1 when none is pending

shared == <<Backends, serving, ReqCount, DesolateBackend>>
estab == <<i, selectcnt, index, tmp, callIncs, entry, dialed, dials>>
session == <<err, rw, conn, backendOpen>>
relay == <<broken, tpc, msg, readLog, writeLog, errc>>
hist == <<retLog, skips>>
vars == <<shared, pc, estab, session, relay, hist>>

(* ------------------------------ helpers -------------------------------- *)
\* len(w.Backends)
backendcnt == Len(Backends)
\* the valid indices of w.Backends
Indices == 0..(backendcnt - 1)

\* the read `waitcnt, ok := w.DesolateBackend[index]` (ok = present)
HasBudget(D, b) == b \in DOMAIN D
\* a backend is skipped when its entry is present and positive
Unhealthy(D, b) == HasBudget(D, b) /\ D[b] > 0
AllHealthy(D) == \A b \in Indices : ~Unhealthy(D, b)
AllUnhealthy(D) == \A b \in Indices : Unhealthy(D, b)

\* variant: the write sets every entry of the map
MapSetAll(D, b, v) == [k \in DOMAIN D \cup {b} |-> v]
\* the map write w.DesolateBackend[b] = v
MapSet(D, b, v) == [k \in DOMAIN D \cup {b} |-> IF k = b THEN v ELSE D[k]]

\* the replicateWebsocketConn(dst, src, ...) arguments of the two goroutines
Src(t) == IF t = "b2c" THEN "backend" ELSE "client"
Dst(t) == IF t = "b2c" THEN "client" ELSE "backend"

\* the value of a local variable that is out of scope
NoEntry == [cnt |-> 0, D |-> <<>>]

\* keep the last n elements of a sequence
LastN(q, n) == IF Len(q) <= n THEN q ELSE SubSeq(q, Len(q) - n + 1, Len(q))

(* ------------------------------- Init ---------------------------------- *)
\* NewProxy(): no backend, empty map, zero counter; no request accepted yet
Init ==
    /\ Backends = <<>>
    /\ serving = FALSE
    /\ ReqCount = 0
    /\ DesolateBackend = <<>>
    /\ pc = [s \in Slots |-> "idle"]
    /\ i = [s \in Slots |-> 0]
    /\ selectcnt = [s \in Slots |-> 0]
    /\ index = [s \in Slots |-> 0]
    /\ tmp = [s \in Slots |-> 0]
    /\ err = [s \in Slots |-> "nil"]
    /\ rw = [s \in Slots |-> "none"]
    /\ conn = [s \in Slots |-> [d \in Sides |-> "none"]]
    /\ broken = [s \in Slots |-> [d \in Sides |-> FALSE]]
    /\ backendOpen = [s \in Slots |-> 0]
    /\ tpc = [s \in Slots |-> [t \in Tasks |-> "off"]]
    /\ msg = [s \in Slots |-> [t \in Tasks |-> NoMsg]]
    /\ readLog = [s \in Slots |-> [t \in Tasks |-> <<>>]]
    /\ writeLog = [s \in Slots |-> [t \in Tasks |-> <<>>]]
    /\ errc = [s \in Slots |-> <<>>]
    /\ entry = [s \in Slots |-> NoEntry]
    /\ callIncs = [s \in Slots |-> 0]
    /\ dialed = [s \in Slots |-> {}]
    /\ dials = [s \in Slots |-> 0]
    /\ retLog = <<>>
    /\ skips = [b \in 0..(MaxBackends - 1) |-> -1]

(* --------------------------- configuration ----------------------------- *)
\* proxy.AddBackend(u): append a resolver; called before the server starts
AddBackend ==
    /\ ~serving
    /\ backendcnt < MaxBackends
    /\ Backends' = Append(Backends, backendcnt + 1)
    /\ UNCHANGED <<serving, ReqCount, DesolateBackend, pc, estab, session,
                   relay, hist>>

\* http.ListenAndServe(addr, proxy): from now on requests are served
ListenAndServe ==
    /\ ~serving
    /\ serving' = TRUE
    /\ UNCHANGED <<Backends, ReqCount, DesolateBackend, pc, estab, session,
                   relay, hist>>

(* ------------------------- ServeHTTP: entry ---------------------------- *)
\* The server calls ServeHTTP on a free handler goroutine.  The relay
\* goroutines of the slot's previous session must have ended (the model
\* holds one session per slot).
ServeHTTP(s) ==
    /\ serving
    /\ pc[s] \in {"idle", "returned"}
    /\ \A t \in Tasks : tpc[s][t] \in {"off", "done"}
    /\ pc' = [pc EXCEPT ![s] = "try"]
    /\ i' = [i EXCEPT ![s] = 0]
    /\ selectcnt' = [selectcnt EXCEPT ![s] = 0]
    /\ index' = [index EXCEPT ![s] = 0]
    /\ tmp' = [tmp EXCEPT ![s] = 0]
    /\ callIncs' = [callIncs EXCEPT ![s] = 0]
    /\ entry' = [entry EXCEPT ![s] = NoEntry]
    /\ dialed' = [dialed EXCEPT ![s] = {}]
    /\ dials' = [dials EXCEPT ![s] = 0]
    /\ err' = [err EXCEPT ![s] = "nil"]
    /\ rw' = [rw EXCEPT ![s] = "none"]
    /\ conn' = [conn EXCEPT ![s] = [d \in Sides |-> "none"]]
    /\ broken' = [broken EXCEPT ![s] = [d \in Sides |-> FALSE]]
    /\ backendOpen' = [backendOpen EXCEPT ![s] = 0]
    /\ tpc' = [tpc EXCEPT ![s] = [t \in Tasks |-> "off"]]
    /\ msg' = [msg EXCEPT ![s] = [t \in Tasks |-> NoMsg]]
    /\ readLog' = [readLog EXCEPT ![s] = [t \in Tasks |-> <<>>]]
    /\ writeLog' = [writeLog EXCEPT ![s] = [t \in Tasks |-> <<>>]]
    /\ errc' = [errc EXCEPT ![s] = <<>>]
    /\ UNCHANGED <<shared, hist>>

(* ------------------------ tryGetBackendConn ---------------------------- *)
\* variant: the loop condition is `i <= backendCount`
TryAgainInclusive(k) == k <= backendcnt
\* the loop condition `i < backendCount` of tryGetBackendConn
TryAgain(k) == k < backendcnt

\* One more iteration: connectBackend is called and calls selectBackend,
\* whose locals index and selectcnt start at zero.
tryGetBackendConn(s) ==
    /\ pc[s] = "try"
    /\ TryAgain(i[s])
    /\ pc' = [pc EXCEPT ![s] = "sel"]
    /\ selectcnt' = [selectcnt EXCEPT ![s] = 0]
    /\ index' = [index EXCEPT ![s] = 0]
    /\ callIncs' = [callIncs EXCEPT ![s] = 0]
    /\ entry' = [entry EXCEPT ![s] = [cnt |-> ReqCount, D |-> DesolateBackend]]
    /\ UNCHANGED <<shared, i, tmp, dialed, dials, session, relay, hist>>

\* variant: ServeHTTP returns without calling http.Error
NoResponse == "none"
\* what ServeHTTP writes when tryGetBackendConn returned an error
ErrorResponse == "500"

\* The loop ran out: tryGetBackendConn returns the error, ServeHTTP answers
\* with http.Error(..., StatusInternalServerError) and returns.
NoBackend(s) ==
    /\ pc[s] = "try"
    /\ ~TryAgain(i[s])
    /\ err' = [err EXCEPT ![s] = NoBackendAvailable]
    /\ rw' = [rw EXCEPT ![s] = ErrorResponse]
    /\ pc' = [pc EXCEPT ![s] = "returned"]
    /\ i' = [i EXCEPT ![s] = 0]
    /\ UNCHANGED <<shared, selectcnt, index, tmp, callIncs, entry, dialed,
                   dials,
                   conn, backendOpen, relay, hist>>

(* --------------------------- selectBackend ----------------------------- *)
\* variant: the bound is tested with > instead of >=
ExhaustedLate(sc) == sc > backendcnt
\* `selectcnt >= backendcnt`: every backend was passed over in this call
Exhausted(sc) == sc >= backendcnt
\* `index = w.ReqCount % backendcnt`
RoundRobin(cnt) == cnt % backendcnt
\* variant: the test is `waitcnt < 0`, a backend with budget 0 is skipped
MustSkipAtZero(D, b) == HasBudget(D, b) /\ ~(D[b] < 0)
\* `waitcnt, ok := w.DesolateBackend[index]; ok` and not `waitcnt <= 0`
MustSkip(D, b) == HasBudget(D, b) /\ ~(D[b] <= 0)
\* variants: the counter advances by two; the budget drops by two
IncrementedTwice(v) == v + 2
DecrementedTwice(v) == v - 2
\* `w.ReqCount++` and `w.DesolateBackend[index]--`, given the value read
Incremented(v) == v + 1
Decremented(v) == v - 1

\* record the return of a selectBackend call that started on a healthy pool
Returned(s, b) ==
    IF AllHealthy(entry[s].D)
    THEN LastN(Append(retLog, b), backendcnt)
    ELSE <<>>

\* the fallback: rand.Intn(backendcnt), then return index
SelFallback(s) ==
    /\ pc[s] = "sel"
    /\ Exhausted(selectcnt[s])
    /\ \E r \in Indices :
         /\ index' = [index EXCEPT ![s] = r]
         /\ retLog' = Returned(s, r)
    /\ pc' = [pc EXCEPT ![s] = "dial"]
    /\ UNCHANGED <<shared, i, selectcnt, tmp, callIncs, entry, dialed, dials,
                   session, relay, skips>>

\* w.ReqCount++, first half: read the counter
SelIncRead(s) ==
    /\ pc[s] = "sel"
    /\ ~Exhausted(selectcnt[s])
    /\ ReqCount < MaxReqCount
    /\ tmp' = [tmp EXCEPT ![s] = ReqCount]
    /\ pc' = [pc EXCEPT ![s] = "inc"]
    /\ UNCHANGED <<shared, i, selectcnt, index, callIncs, entry, dialed, dials,
                   session, relay, hist>>

\* w.ReqCount++, second half: write the counter
SelIncWrite(s) ==
    /\ pc[s] = "inc"
    /\ ReqCount' = Incremented(tmp[s])
    /\ callIncs' = [callIncs EXCEPT ![s] = @ + 1]
    /\ tmp' = [tmp EXCEPT ![s] = 0]
    /\ pc' = [pc EXCEPT ![s] = "mod"]
    /\ UNCHANGED <<Backends, serving, DesolateBackend, i, selectcnt, index,
                   entry, dialed, dials, session, relay, hist>>

\* index = w.ReqCount % backendcnt (the counter is read again)
SelIndex(s) ==
    /\ pc[s] = "mod"
    /\ index' = [index EXCEPT ![s] = RoundRobin(ReqCount)]
    /\ pc' = [pc EXCEPT ![s] = "look"]
    /\ UNCHANGED <<shared, i, selectcnt, tmp, callIncs, entry, dialed, dials,
                   session, relay, hist>>

\* the map lookup: skip the backend (selectcnt++) or return it
SelLookup(s) ==
    /\ pc[s] = "look"
    /\ IF MustSkip(DesolateBackend, index[s])
       THEN /\ selectcnt' = [selectcnt EXCEPT ![s] = @ + 1]
            /\ pc' = [pc EXCEPT ![s] = "decr"]
            /\ UNCHANGED retLog
       ELSE /\ pc' = [pc EXCEPT ![s] = "dial"]
            /\ retLog' = Returned(s, index[s])
            /\ UNCHANGED selectcnt
    /\ UNCHANGED <<shared, i, index, tmp, callIncs, entry, dialed, dials,
                   session, relay, skips>>

\* w.DesolateBackend[index]--, first half: read the budget
SelDecRead(s) ==
    /\ pc[s] = "decr"
    /\ tmp' = [tmp EXCEPT ![s] = DesolateBackend[index[s]]]
    /\ pc' = [pc EXCEPT ![s] = "decw"]
    /\ UNCHANGED <<shared, i, selectcnt, index, callIncs, entry, dialed, dials,
                   session, relay, hist>>

\* w.DesolateBackend[index]--, second half: write the budget; `continue`
SelDecWrite(s) ==
    /\ pc[s] = "decw"
    /\ DesolateBackend' = MapSet(DesolateBackend, index[s], Decremented(tmp[s]))
    /\ skips' = [skips EXCEPT ![index[s]] =
                    IF @ < 0 THEN @
                    ELSE IF @ > Penalty THEN @ ELSE @ + 1]
    /\ tmp' = [tmp EXCEPT ![s] = 0]
    /\ pc' = [pc EXCEPT ![s] = "sel"]
    /\ UNCHANGED <<Backends, serving, ReqCount, i, selectcnt, index,
                   callIncs, entry, dialed, dials, session, relay, retLog>>

(* --------------------------- connectBackend ---------------------------- *)
\* the budget written after a failed and after a successful dial
BudgetAfterFailure == Penalty
BudgetAfterSuccess == 0

\* dialer.Dial returned an error: mark the backend, return the error;
\* tryGetBackendConn continues with the next iteration
DialFail(s) ==
    /\ pc[s] = "dial"
    /\ DesolateBackend' = MapSet(DesolateBackend, index[s], BudgetAfterFailure)
    /\ dialed' = [dialed EXCEPT ![s] = @ \cup {index[s]}]
    /\ dials' = [dials EXCEPT ![s] = @ + 1]
    /\ i' = [i EXCEPT ![s] = @ + 1]
    /\ pc' = [pc EXCEPT ![s] = "try"]
    /\ retLog' = <<>>
    /\ skips' = [skips EXCEPT ![index[s]] = 0]
    /\ selectcnt' = [selectcnt EXCEPT ![s] = 0]
    /\ callIncs' = [callIncs EXCEPT ![s] = 0]
    /\ entry' = [entry EXCEPT ![s] = NoEntry]
    /\ UNCHANGED <<Backends, serving, ReqCount, index, tmp, session, relay>>

\* variant: tryGetBackendConn goes on with its loop after a successful dial
DialOkContinue(s) ==
    /\ pc[s] = "dial"
    /\ DesolateBackend' = MapSet(DesolateBackend, index[s], BudgetAfterSuccess)
    /\ dialed' = [dialed EXCEPT ![s] = @ \cup {index[s]}]
    /\ dials' = [dials EXCEPT ![s] = @ + 1]
    /\ conn' = [conn EXCEPT ![s]["backend"] = "open"]
    /\ backendOpen' = [backendOpen EXCEPT ![s] = @ + 1]
    /\ i' = [i EXCEPT ![s] = @ + 1]
    /\ pc' = [pc EXCEPT ![s] = "try"]
    /\ skips' = [skips EXCEPT ![index[s]] = -1]
    /\ selectcnt' = [selectcnt EXCEPT ![s] = 0]
    /\ callIncs' = [callIncs EXCEPT ![s] = 0]
    /\ entry' = [entry EXCEPT ![s] = NoEntry]
    /\ UNCHANGED <<Backends, serving, ReqCount, index, tmp, err, rw, relay,
                   retLog>>

\* dialer.Dial succeeded: reset the budget; tryGetBackendConn returns the
\* connection and ServeHTTP defers connBackend.Close()
DialOk(s) ==
    /\ pc[s] = "dial"
    /\ DesolateBackend' = MapSet(DesolateBackend, index[s], BudgetAfterSuccess)
    /\ dialed' = [dialed EXCEPT ![s] = @ \cup {index[s]}]
    /\ dials' = [dials EXCEPT ![s] = @ + 1]
    /\ conn' = [conn EXCEPT ![s]["backend"] = "open"]
    /\ backendOpen' = [backendOpen EXCEPT ![s] = @ + 1]
    /\ pc' = [pc EXCEPT ![s] = "upgrade"]
    /\ skips' = [skips EXCEPT ![index[s]] = -1]
    /\ i' = [i EXCEPT ![s] = 0]
    /\ selectcnt' = [selectcnt EXCEPT ![s] = 0]
    /\ callIncs' = [callIncs EXCEPT ![s] = 0]
    /\ entry' = [entry EXCEPT ![s] = NoEntry]
    /\ UNCHANGED <<Backends, serving, ReqCount, index, tmp, err, rw, relay,
                   retLog>>

(* ----------------------- ServeHTTP: the upgrade ------------------------ *)
\* variant: the deferred Close is missing
KeepOpen(c) == c
\* conn.Close(): closing twice leaves the connection closed
Close(c) == IF c = "none" THEN "none" ELSE "closed"
\* the backend connections a session still holds open after closing c
Released(n, c) == IF c = "open" THEN n - 1 ELSE n

\* upgrader.Upgrade succeeded: defer connPub.Close(), make errc, start the
\* two replicateWebsocketConn goroutines, then block on <-errc
UpgradeOk(s) ==
    /\ pc[s] = "upgrade"
    /\ conn' = [conn EXCEPT ![s]["client"] = "open"]
    /\ rw' = [rw EXCEPT ![s] = "101"]
    /\ errc' = [errc EXCEPT ![s] = <<>>]
    /\ tpc' = [tpc EXCEPT ![s] = [t \in Tasks |-> "read"]]
    /\ pc' = [pc EXCEPT ![s] = "wait"]
    /\ UNCHANGED <<shared, estab, err, backendOpen, broken, msg, readLog,
                   writeLog, hist>>

\* variant: connBackend.Close() is deferred only after the upgrade, so a
\* failed upgrade returns with the backend connection open
UpgradeFailNoDefer(s) ==
    /\ pc[s] = "upgrade"
    /\ err' = [err EXCEPT ![s] = UpgradeError]
    /\ rw' = [rw EXCEPT ![s] = "upgrader"]
    /\ pc' = [pc EXCEPT ![s] = "returned"]
    /\ UNCHANGED <<shared, estab, conn, backendOpen, relay, hist>>

\* upgrader.Upgrade failed (it has answered the client itself): log, return;
\* the deferred connBackend.Close() runs
UpgradeFail(s) ==
    /\ pc[s] = "upgrade"
    /\ err' = [err EXCEPT ![s] = UpgradeError]
    /\ rw' = [rw EXCEPT ![s] = "upgrader"]
    /\ conn' = [conn EXCEPT ![s]["backend"] = Close(@)]
    /\ backendOpen' = [backendOpen EXCEPT ![s] =
                          Released(@, conn[s]["backend"])]
    /\ pc' = [pc EXCEPT ![s] = "returned"]
    /\ UNCHANGED <<shared, estab, relay, hist>>

(* --------------------- replicateWebsocketConn -------------------------- *)
\* variant: every message is forwarded as a text message
ForwardedAsText(m) == <<TextMessage, m[2]>>
\* the pair handed to dst.WriteMessage(msgType, msg)
Forwarded(m) == m
\* The value of the function's outer `err` at `errc <- err`: the loop
\* declares its own err (msgType, msg, err := ...), so the outer one keeps
\* its zero value.
ReportedErr == "nil"

\* src.ReadMessage() returned a message
ReadMsg(s, t) ==
    /\ tpc[s][t] = "read"
    /\ conn[s][Src(t)] = "open"
    /\ ~broken[s][Src(t)]
    /\ Len(readLog[s]["b2c"]) + Len(readLog[s]["c2b"]) < MaxMsgs
    /\ \E m \in Msgs :
         /\ msg' = [msg EXCEPT ![s][t] = m]
         /\ readLog' = [readLog EXCEPT ![s][t] = Append(@, m)]
    /\ tpc' = [tpc EXCEPT ![s][t] = "write"]
    /\ UNCHANGED <<shared, pc, estab, session, broken, writeLog, errc, hist>>

\* src.ReadMessage() returned an error: the connection was closed by this
\* proxy, or the peer closed or failed; break
ReadErr(s, t) ==
    /\ tpc[s][t] = "read"
    /\ conn[s][Src(t)] = "closed" \/ broken[s][Src(t)]
    /\ tpc' = [tpc EXCEPT ![s][t] = "report"]
    /\ UNCHANGED <<shared, pc, estab, session, broken, msg, readLog,
                   writeLog, errc, hist>>

\* dst.WriteMessage(msgType, msg) returned nil: next iteration
WriteOk(s, t) ==
    /\ tpc[s][t] = "write"
    /\ conn[s][Dst(t)] = "open"
    /\ writeLog' = [writeLog EXCEPT ![s][t] = Append(@, Forwarded(msg[s][t]))]
    /\ msg' = [msg EXCEPT ![s][t] = NoMsg]
    /\ tpc' = [tpc EXCEPT ![s][t] = "read"]
    /\ UNCHANGED <<shared, pc, estab, session, broken, readLog, errc, hist>>

\* dst.WriteMessage(msgType, msg) returned an error; break
WriteErr(s, t) ==
    /\ tpc[s][t] = "write"
    /\ conn[s][Dst(t)] = "closed" \/ broken[s][Dst(t)]
    /\ msg' = [msg EXCEPT ![s][t] = NoMsg]
    /\ tpc' = [tpc EXCEPT ![s][t] = "report"]
    /\ UNCHANGED <<shared, pc, estab, session, broken, readLog, writeLog,
                   errc, hist>>

\* errc <- err: blocks while the channel is full; the goroutine ends
Report(s, t) ==
    /\ tpc[s][t] = "report"
    /\ Len(errc[s]) < ErrcCap
    /\ errc' = [errc EXCEPT ![s] = Append(@, ReportedErr)]
    /\ tpc' = [tpc EXCEPT ![s][t] = "done"]
    /\ UNCHANGED <<shared, pc, estab, session, broken, msg, readLog,
                   writeLog, hist>>

\* the peer of an open connection closes it or the transport fails
PeerFail(s, d) ==
    /\ conn[s][d] = "open"
    /\ ~broken[s][d]
    /\ broken' = [broken EXCEPT ![s][d] = TRUE]
    /\ UNCHANGED <<shared, pc, estab, session, tpc, msg, readLog, writeLog,
                   errc, hist>>

(* ------------------- ServeHTTP: wait and teardown ---------------------- *)
\* variant: ServeHTTP returns without receiving from errc
WaitNoReport(s) ==
    /\ pc[s] = "wait"
    /\ pc' = [pc EXCEPT ![s] = "defer_pub"]
    /\ UNCHANGED <<shared, estab, session, relay, hist>>

\* <-errc: the first report arrives; ServeHTTP returns
Wait(s) ==
    /\ pc[s] = "wait"
    /\ errc[s] # <<>>
    /\ errc' = [errc EXCEPT ![s] = Tail(@)]
    /\ pc' = [pc EXCEPT ![s] = "defer_pub"]
    /\ UNCHANGED <<shared, estab, session, broken, tpc, msg, readLog,
                   writeLog, hist>>

\* variant: connPub.Close() is not deferred
ClosePubMissing(s) ==
    /\ pc[s] = "defer_pub"
    /\ pc' = [pc EXCEPT ![s] = "defer_backend"]
    /\ UNCHANGED <<shared, estab, session, relay, hist>>

\* deferred connPub.Close() (deferred last, so it runs first)
ClosePub(s) ==
    /\ pc[s] = "defer_pub"
    /\ conn' = [conn EXCEPT ![s]["client"] = Close(@)]
    /\ pc' = [pc EXCEPT ![s] = "defer_backend"]
    /\ UNCHANGED <<shared, estab, err, rw, backendOpen, relay, hist>>

\* variant: connBackend.Close() is not deferred
CloseBackendMissing(s) ==
    /\ pc[s] = "defer_backend"
    /\ pc' = [pc EXCEPT ![s] = "returned"]
    /\ UNCHANGED <<shared, estab, session, relay, hist>>

\* deferred connBackend.Close(); the handler has returned
CloseBackend(s) ==
    /\ pc[s] = "defer_backend"
    /\ conn' = [conn EXCEPT ![s]["backend"] = Close(@)]
    /\ backendOpen' = [backendOpen EXCEPT ![s] =
                          Released(@, conn[s]["backend"])]
    /\ pc' = [pc EXCEPT ![s] = "returned"]
    /\ UNCHANGED <<shared, estab, err, rw, relay, hist>>

(* --------------------------- specifications ---------------------------- *)
\* the steps of selectBackend
Select(s) ==
    \/ SelFallback(s)
    \/ SelIncRead(s)
    \/ SelIncWrite(s)
    \/ SelIndex(s)
    \/ SelLookup(s)
    \/ SelDecRead(s)
    \/ SelDecWrite(s)

\* the steps of a handler goroutine up to the dial
Establish(s) ==
    \/ tryGetBackendConn(s)
    \/ NoBackend(s)
    \/ Select(s)

\* the steps of a handler goroutine after the dial
Serve(s) ==
    \/ UpgradeOk(s)
    \/ UpgradeFail(s)
    \/ Wait(s)
    \/ ClosePub(s)
    \/ CloseBackend(s)

\* the steps of the relay goroutines that end a session without traffic
Teardown(s) ==
    \/ \E t \in Tasks : ReadErr(s, t) \/ Report(s, t)
    \/ \E d \in Sides : PeerFail(s, d)

\* the steps of the relay goroutines that carry messages
Traffic(s) ==
    \E t \in Tasks : ReadMsg(s, t) \/ WriteOk(s, t) \/ WriteErr(s, t)

Configure == AddBackend \/ ListenAndServe

\* The handler goroutines of all slots, interleaved step by step; requests
\* arrive until the counter has reached MaxLoad; peers send no messages
\* (RelaySpec below adds the message traffic).
Next ==
    \/ Configure
    \/ \E s \in Slots :
         \/ ReqCount < MaxLoad /\ ServeHTTP(s)
         \/ Establish(s) \/ DialFail(s) \/ DialOk(s) \/ Serve(s)
         \/ Teardown(s)

Spec == Init /\ [][Next]_vars

\* the slot of the specifications with a single handler goroutine
One == {1}

\* One handler goroutine: sessions, and so selections and dials, run one
\* after another; peers send no messages.
SerialNext ==
    \/ Configure
    \/ \E s \in One :
         \/ ServeHTTP(s)
         \/ Establish(s) \/ DialFail(s) \/ DialOk(s) \/ Serve(s)
         \/ Teardown(s)

SerialSpec == Init /\ [][SerialNext]_vars

\* One handler goroutine with message traffic in both directions.
RelayNext ==
    \/ Configure
    \/ \E s \in One :
         \/ ReqCount < MaxLoad /\ ServeHTTP(s)
         \/ Establish(s) \/ DialFail(s) \/ DialOk(s) \/ Serve(s)
         \/ Teardown(s) \/ Traffic(s)

RelaySpec == Init /\ [][RelayNext]_vars

\* The end-to-end scenario: backend 0 refuses every dial, every other
\* backend accepts every dial; all handler goroutines interleaved; peers
\* send no messages.
ScenarioNext ==
    \/ Configure
    \/ \E s \in Slots :
         \/ ReqCount < MaxLoad /\ ServeHTTP(s)
         \/ Establish(s)
         \/ index[s] = 0 /\ DialFail(s)
         \/ index[s] # 0 /\ DialOk(s)
         \/ Serve(s)
         \/ Teardown(s)

ScenarioSpec == Init /\ [][ScenarioNext]_vars

\* the steps of a relay goroutine that do not wait for the peer to send: a
\* ReadMessage that fails, a WriteMessage that returns, the channel send
Runnable(s, t) ==
    ReadErr(s, t) \/ WriteOk(s, t) \/ WriteErr(s, t) \/ Report(s, t)

\* RelaySpec with the scheduler's fairness: a handler goroutine that can
\* take a step takes it, and so does a relay goroutine whose call returns.
FairRelaySpec ==
    /\ Init
    /\ [][RelayNext]_vars
    /\ \A s \in One :
         /\ WF_vars(Serve(s))
         /\ \A t \in Tasks : WF_vars(Runnable(s, t))

(* ------------------------------ claims --------------------------------- *)
InSelect(s) == pc[s] \in {"sel", "inc", "mod", "look", "decr", "decw"}
IsPrefix(p, q) == Len(p) <= Len(q) /\ SubSeq(q, 1, Len(p)) = p

\* C1: with two backends, backend 0 refusing every dial and backend 1
\* accepting every dial, no session ends with "No backend available" and
\* every backend connection a session holds is a connection to backend 1.
C1_RoutedToBackend1 ==
    backendcnt = 2 =>
        \A s \in Slots :
            /\ err[s] # NoBackendAvailable
            /\ conn[s]["backend"] # "none" => index[s] = 1

\* C2: consecutive selectBackend calls that start on an all-healthy pool,
\* run one after another with no dial failure in between, return
\* consecutive indices modulo N, and N such calls return every index once.
C2_RoundRobin ==
    /\ \A k \in 2..Len(retLog) : retLog[k] = (retLog[k - 1] + 1) % backendcnt
    /\ Len(retLog) = backendcnt =>
          /\ {retLog[k] : k \in 1..Len(retLog)} = Indices
          /\ \A k, l \in 1..Len(retLog) : retLog[k] = retLog[l] => k = l

C2_Witness == backendcnt = MaxBackends /\ Len(retLog) = backendcnt

\* C3 as stated: while a failed dial of backend i is the latest dial of i,
\* selectBackend returns i only after exactly 5 skip rounds on i.
C3_Original ==
    \A s \in Slots :
        pc[s] = "dial" /\ skips[index[s]] >= 0 => skips[index[s]] = Penalty

\* C3 as amended: with selections run one at a time, while a failed dial of
\* backend i is the latest dial of i, every round that lands on i lowers the
\* budget by one from 5 and skips i, and a round returns i only after
\* exactly 5 such skips; only the random fallback returns i earlier.
C3_Backoff ==
    /\ \A b \in Indices :
          skips[b] >= 0 =>
              /\ skips[b] <= Penalty
              /\ HasBudget(DesolateBackend, b)
              /\ DesolateBackend[b] = Penalty - skips[b]
    /\ \A s \in Slots :
          pc[s] = "dial" /\ ~Exhausted(selectcnt[s]) /\ skips[index[s]] >= 0
              => skips[index[s]] = Penalty

C3_Witness ==
    \E s \in Slots :
        /\ pc[s] = "dial"
        /\ ~Exhausted(selectcnt[s])
        /\ skips[index[s]] = Penalty

\* C4: a selectBackend call that starts with every backend unhealthy makes
\* at most N skip rounds and at most N counter increments, is never blocked
\* (it takes a step until it returns), and returns an index in 0..N-1.
C4_SelectionBounded ==
    \A s \in Slots :
        (InSelect(s) \/ pc[s] = "dial") /\ AllUnhealthy(entry[s].D) =>
            /\ selectcnt[s] <= backendcnt
            /\ callIncs[s] <= backendcnt
            /\ InSelect(s) => ENABLED Select(s) \/ ReqCount >= MaxReqCount
            /\ pc[s] = "dial" => index[s] \in Indices

C4_Witness ==
    \E s \in Slots :
        /\ pc[s] = "dial"
        /\ backendcnt = MaxBackends
        /\ AllUnhealthy(entry[s].D)
        /\ callIncs[s] = backendcnt

\* C5: a session reports "No backend available" only after it has dialed
\* every index of the pool.
C5_AllDialed ==
    \A s \in Slots : err[s] = NoBackendAvailable => dialed[s] = Indices

\* C6: a session whose establishment failed has returned with the 500
\* response written, without an upgrade, without relay goroutines and
\* without a backend connection.
C6_EstablishFailure ==
    \A s \in Slots :
        err[s] = NoBackendAvailable =>
            /\ pc[s] = "returned"
            /\ rw[s] = "500"
            /\ conn[s]["client"] = "none"
            /\ conn[s]["backend"] = "none"
            /\ backendOpen[s] = 0
            /\ \A t \in Tasks : tpc[s][t] = "off"

C6_Witness ==
    \E s \in Slots : err[s] = NoBackendAvailable /\ backendcnt >= 1

\* C7: a session whose upgrade failed has returned with its backend
\* connection closed, without relay goroutines and without a response
\* written by the proxy itself.
C7_UpgradeFailure ==
    \A s \in Slots :
        err[s] = UpgradeError =>
            /\ pc[s] = "returned"
            /\ conn[s]["backend"] = "closed"
            /\ backendOpen[s] = 0
            /\ conn[s]["client"] = "none"
            /\ rw[s] = "upgrader"
            /\ \A t \in Tasks : tpc[s][t] = "off"

C7_Witness == \E s \in Slots : err[s] = UpgradeError

\* C8: a session never holds more than one open backend connection, and
\* once its handler has returned it holds no open connection; after
\* relaying both connections are closed.
C8_Released ==
    \A s \in Slots :
        /\ backendOpen[s] <= 1
        /\ pc[s] = "returned" =>
              /\ backendOpen[s] = 0
              /\ \A d \in Sides : conn[s][d] # "open"
              /\ conn[s]["client"] = "closed" => conn[s]["backend"] = "closed"
              /\ rw[s] = "101" => \A d \in Sides : conn[s][d] = "closed"

C8_Witness ==
    \E s \in Slots :
        pc[s] = "returned" /\ rw[s] = "101" /\ conn[s]["client"] = "closed"

\* C9: under fair scheduling, once the backend connection of a relaying
\* session has failed, the client connection gets closed and the handler
\* returns; likewise for the backend connection once the client connection
\* has failed.
C9_TeardownSymmetry ==
    \A s \in One :
        /\ (pc[s] = "wait" /\ broken[s]["backend"])
              ~> (pc[s] = "returned" /\ conn[s]["client"] = "closed")
        /\ (pc[s] = "wait" /\ broken[s]["client"])
              ~> (pc[s] = "returned" /\ conn[s]["backend"] = "closed")

C9_Witness ==
    \E s \in Slots :
        /\ pc[s] = "returned"
        /\ broken[s]["backend"]
        /\ ~broken[s]["client"]
        /\ conn[s]["client"] = "closed"

\* C10: in each direction the messages written are a prefix of the messages
\* read, type and payload unchanged; a task holds at most one message that
\* is read and not yet written, and none when it reads.
C10_RelayOrder ==
    \A s \in Slots : \A t \in Tasks :
        /\ IsPrefix(writeLog[s][t], readLog[s][t])
        /\ Len(readLog[s][t]) <= Len(writeLog[s][t]) + 1
        /\ tpc[s][t] = "read" => writeLog[s][t] = readLog[s][t]
        /\ tpc[s][t] = "write" =>
              /\ Len(readLog[s][t]) = Len(writeLog[s][t]) + 1
              /\ msg[s][t] = readLog[s][t][Len(readLog[s][t])]

C10_Witness ==
    \E s \in Slots : \E t \in Tasks :
        /\ Len(writeLog[s][t]) = MaxMsgs
        /\ writeLog[s][t][1] = <<BinaryMessage, "q">>
        /\ writeLog[s][t][2] = <<TextMessage, "p">>

\* the handler is past tryGetBackendConn
Established(s) ==
    pc[s] \in {"upgrade", "wait", "defer_pub", "defer_backend", "returned"}

\* C11: with one backend registered every selectBackend call returns index
\* 0, also when the budget of backend 0 is positive, and a session that is
\* past its establishment has made exactly one dial attempt.
C11_SingleBackend ==
    backendcnt = 1 =>
        \A s \in Slots :
            /\ pc[s] = "dial" => index[s] = 0
            /\ dialed[s] \subseteq {0}
            /\ dials[s] <= 1
            /\ Established(s) => dials[s] = 1

C11_Witness ==
    \E s \in Slots :
        /\ backendcnt = 1
        /\ pc[s] = "dial"
        /\ Unhealthy(entry[s].D, 0)
        /\ index[s] = 0

\* C12: a session dials at most N times, makes no dial once a dial has
\* succeeded, and reports "No backend available" exactly when N dials have
\* failed.
C12_BoundedRetry ==
    \A s \in Slots :
        /\ dials[s] <= backendcnt
        /\ conn[s]["backend"] # "none" =>
              Established(s) /\ err[s] # NoBackendAvailable
        /\ err[s] = NoBackendAvailable =>
              dials[s] = backendcnt /\ conn[s]["backend"] = "none"
        /\ pc[s] = "try" =>
              /\ conn[s]["backend"] = "none"
              /\ dials[s] = backendcnt =>
                    ENABLED NoBackend(s) /\ ~ENABLED tryGetBackendConn(s)
              /\ dials[s] < backendcnt =>
                    ~ENABLED NoBackend(s) /\ ENABLED tryGetBackendConn(s)

C12_Witness ==
    \E s \in Slots :
        /\ backendcnt = MaxBackends
        /\ dials[s] = backendcnt
        /\ conn[s]["backend"] = "open"

\* the handler is past `<-errc`
Received(s) == pc[s] \in {"defer_pub", "defer_backend", "returned"}

\* C13 as stated: where the handler has returned after relaying, both relay
\* tasks have stopped.
C13_Original ==
    \A s \in Slots :
        pc[s] = "returned" /\ rw[s] = "101" =>
            \A t \in Tasks : tpc[s][t] = "done"

\* C13: the handler returns after the first report: once it is past the
\* receive at least one relay task has stopped, and a task that still runs
\* after the return finds the connection of its pending call closed, so the
\* call can only fail.
C13_FirstReport ==
    \A s \in Slots :
        /\ Received(s) /\ rw[s] = "101" =>
              \E t \in Tasks : tpc[s][t] = "done"
        /\ pc[s] = "returned" /\ rw[s] = "101" =>
              \A t \in Tasks :
                  /\ tpc[s][t] # "off"
                  /\ tpc[s][t] = "read" =>
                        ENABLED ReadErr(s, t) /\ ~ENABLED ReadMsg(s, t)
                  /\ tpc[s][t] = "write" =>
                        ENABLED WriteErr(s, t) /\ ~ENABLED WriteOk(s, t)

C13_Witness ==
    \E s \in Slots :
        /\ pc[s] = "returned"
        /\ rw[s] = "101"
        /\ tpc[s]["b2c"] = "done"
        /\ tpc[s]["c2b"] = "write"

\* C14: under fair scheduling, once one relay task of a session has stopped
\* the other one stops too; the error channel never holds more than its
\* capacity, and a task that is at its send is never blocked.
C14_BothStop ==
    \A s \in One :
        /\ (\E t \in Tasks : tpc[s][t] = "done")
              ~> (\A t \in Tasks : tpc[s][t] = "done")
        /\ [](/\ Len(errc[s]) <= ErrcCap
              /\ \A t \in Tasks :
                    tpc[s][t] = "report" => ENABLED Report(s, t))

C14_Witness ==
    \E s \in Slots :
        /\ pc[s] = "returned"
        /\ \A t \in Tasks : tpc[s][t] = "done"
        /\ Len(errc[s]) = 1
        /\ writeLog[s]["c2b"] # <<>>

\* C15: the step that ends a dial attempt against backend index sets the
\* budget of index to the penalty 5 when the dial failed and to 0 when it
\* succeeded, and changes neither another backend's budget nor ReqCount.
C15_DialBookkeeping ==
    [][\A s \in Slots :
          pc[s] = "dial" /\ pc'[s] # "dial" =>
              /\ DOMAIN DesolateBackend' =
                    DOMAIN DesolateBackend \cup {index[s]}
              /\ DesolateBackend'[index[s]] =
                    IF conn'[s]["backend"] = "open" THEN 0 ELSE Penalty
              /\ \A b \in DOMAIN DesolateBackend \ {index[s]} :
                    DesolateBackend'[b] = DesolateBackend[b]
              /\ ReqCount' = ReqCount]_vars

C15_Witness ==
    \E s \in Slots :
        /\ pc[s] = "try"
        /\ dials[s] >= 1
        /\ HasBudget(DesolateBackend, index[s])
        /\ DesolateBackend[index[s]] = Penalty
        /\ \E c \in DOMAIN DesolateBackend \ {index[s]} :
              DesolateBackend[c] \in 1..(Penalty - 1)

\* C16: every completed `w.ReqCount++` leaves the counter one above its
\* value before the step, and no step lowers the counter, also when the
\* handlers of several sessions interleave.
C16_NoLostIncrement ==
    [][/\ ReqCount' >= ReqCount
       /\ \A s \in Slots :
             pc[s] = "inc" /\ pc'[s] = "mod" => ReqCount' = ReqCount + 1]_vars

\* C17: every skip budget is in 0..5.
C17_BudgetRange ==
    \A b \in DOMAIN DesolateBackend : DesolateBackend[b] \in 0..Penalty

\* the indices a selectBackend call that started at counter c passes over
\* in its first k - 1 rounds
PassedOver(c, k) == {(c + j) % backendcnt : j \in 1..(k - 1)}

\* C18: with selections run one at a time, where selectBackend returns:
\* a round returns only a backend without positive budget; the fallback is
\* taken only if every backend had a positive budget when the call started;
\* and if some backend was healthy then, the call returns the first healthy
\* index after the counter, having advanced the counter once per round and
\* lowered by one the budget of exactly the backends it passed over.
C18_SelectResult ==
    \A s \in Slots :
        pc[s] = "dial" =>
            /\ ~Exhausted(selectcnt[s]) =>
                  ~Unhealthy(DesolateBackend, index[s])
            /\ Exhausted(selectcnt[s]) => AllUnhealthy(entry[s].D)
            /\ ~AllUnhealthy(entry[s].D) =>
                  /\ ~Exhausted(selectcnt[s])
                  /\ callIncs[s] \in 1..backendcnt
                  /\ ReqCount = entry[s].cnt + callIncs[s]
                  /\ index[s] = (entry[s].cnt + callIncs[s]) % backendcnt
                  /\ ~Unhealthy(entry[s].D, index[s])
                  /\ \A b \in PassedOver(entry[s].cnt, callIncs[s]) :
                        Unhealthy(entry[s].D, b)
                  /\ selectcnt[s] = callIncs[s] - 1
                  /\ DesolateBackend =
                        [b \in DOMAIN entry[s].D |->
                            IF b \in PassedOver(entry[s].cnt, callIncs[s])
                            THEN entry[s].D[b] - 1
                            ELSE entry[s].D[b]]

C18_Witness ==
    \E s \in Slots :
        /\ pc[s] = "dial"
        /\ backendcnt = MaxBackends
        /\ ~Exhausted(selectcnt[s])
        /\ selectcnt[s] >= 1
        /\ HasBudget(entry[s].D, index[s])
        /\ entry[s].D[index[s]] = 0

\* C19: while no backend is registered a session neither selects nor
\* dials and the counter stays 0; its establishment ends at once with "No
\* backend available" and the 500 response, and the proxy accepts the next
\* request.
C19_EmptyPool ==
    backendcnt = 0 =>
        /\ ReqCount = 0
        /\ DesolateBackend = <<>>
        /\ \A s \in Slots :
              /\ ~InSelect(s)
              /\ pc[s] \in {"idle", "try", "returned"}
              /\ dials[s] = 0
              /\ pc[s] = "try" =>
                    ENABLED NoBackend(s) /\ ~ENABLED tryGetBackendConn(s)
              /\ pc[s] = "returned" =>
                    /\ err[s] = NoBackendAvailable
                    /\ rw[s] = "500"
                    /\ \A d \in Sides : conn[s][d] = "none"
                    /\ ENABLED ServeHTTP(s)

C19_Witness ==
    \E s \in Slots :
        /\ backendcnt = 0
        /\ pc[s] = "returned"
        /\ err[s] = NoBackendAvailable
        /\ rw[s] = "500"

\* C20: every value a relay task has sent on the error channel is the
\* error that ended its loop, never nil.
C20_ReportsError ==
    \A s \in Slots :
        \A k \in 1..Len(errc[s]) : errc[s][k] # "nil"

=============================================================================
